---- MODULE Spec2Model ----
(***************************************************************************)
(* State-machine model of the OpenClaw service worker (src/sw.js): the     *)
(* install / activate / fetch listeners, the three caching strategies and  *)
(* the Cache Storage and network they run against.                         *)
(*                                                                         *)
(* Every `await` of the source is a step boundary.  A store operation may  *)
(* fail with a store-unavailable error, a fetch may return a 2xx or a      *)
(* non-2xx response or fail with a network error.  A cache.put the source  *)
(* does not await is a write in flight (pendingPuts) that settles in a     *)
(* later step.                                                             *)
(***************************************************************************)
EXTENDS Integers, Sequences, FiniteSets, TLC

(***************************************************************************)
(* Bounds of the model.                                                    *)
(***************************************************************************)
\* number of fetch events dispatched to the worker (one strategy run each)
MaxTasks == 2
\* number of times the activate event is dispatched to the worker
MaxActivations == 2
\* number of message events dispatched to the worker
MaxMessages == 1
\* number of URLs in the list of one CACHE_URLS message
MaxPrimeUrls == 2

(***************************************************************************)
(* Program constants.                                                      *)
(***************************************************************************)
CACHE_NAME == "openclaw-v2"
RUNTIME_CACHE == "openclaw-runtime-v2"

\* store names of the superseded generation, left behind by its worker
StaleNames == {"openclaw-v1", "openclaw-runtime-v1"}
StoreNames == {CACHE_NAME, RUNTIME_CACHE} \cup StaleNames

\* A URL as `new URL(...)` parses it: ext is the extension that ends pathname.
Url(scheme, hostname, pathname, ext) ==
    [scheme |-> scheme, hostname |-> hostname, pathname |-> pathname, ext |-> ext]

OriginHost == "openclaw.app"
URL_ROOT == Url("https", OriginHost, "/", "")
URL_INDEX == Url("https", OriginHost, "/index.html", "html")
URL_MAIN_JS == Url("https", OriginHost, "/static/js/main.chunk.js", "js")
URL_BUNDLE_JS == Url("https", OriginHost, "/static/js/bundle.js", "js")
URL_MANIFEST == Url("https", OriginHost, "/manifest.json", "json")
URL_FONT_CSS == Url("https", "fonts.googleapis.com", "/css2", "")
URL_ICON == Url("https", OriginHost, "/icons/icon-192.png", "png")
URL_API == Url("https", "api.anthropic.com", "/v1/messages", "")
URL_EXTENSION == Url("chrome-extension", "abcdef", "/popup.html", "html")

PRECACHE_URLS ==
    << URL_ROOT, URL_INDEX, URL_MAIN_JS, URL_BUNDLE_JS, URL_MANIFEST, URL_FONT_CSS >>

\* the list PRECACHE_URLS.map(url => cache.add(url)) runs on: every entry
Manifest == PRECACHE_URLS

\* the URLs of the requests the page issues
FetchUrls == {URL_ROOT, URL_MAIN_JS, URL_FONT_CSS, URL_ICON, URL_API, URL_EXTENSION}
Urls == FetchUrls \cup {PRECACHE_URLS[i] : i \in 1..Len(PRECACHE_URLS)}

\* values of the request's accept header: a navigation's and any other request's
AcceptDocument == "text/html,application/xhtml+xml"
AcceptAny == "*/*"
AcceptHeaders == {AcceptDocument, AcceptAny}

\* the requests the page issues: every URL as a navigation and as a subresource,
\* the root document as a navigation only
Requests == [url : FetchUrls, accept : AcceptHeaders] \ {[url |-> URL_ROOT, accept |-> AcceptAny]}

(***************************************************************************)
(* Responses.                                                              *)
(***************************************************************************)
\* id tells the fetches apart: the strategy run that obtained the response
\* (0: not obtained by a strategy run).
Resp(url, status, type, body, id) ==
    [url |-> url, status |-> status, type |-> type, body |-> body, id |-> id]

\* the url of a response the worker constructs itself
NoUrl == Url("", "", "", "")

\* undefined / null: no response
NoResp == Resp(NoUrl, 0, "", "", 0)

\* a check for any response at all (`if (response)`) in place of response.ok
Ok_AnyResponse(response) == response.status # 0

\* response.ok
Ok(response) == response.status >= 200 /\ response.status <= 299

\* statuses the network answers with
NetStatuses == {200, 404}
\* outcomes of one fetch(): a response with a status, or a network error
NetOutcomes == NetStatuses \cup {0}
NetworkError == 0

\* the Content-Type the server declares for a URL
ContentTypeOf(url) ==
    CASE url.ext = "js" -> "application/javascript"
      [] url.ext = "json" -> "application/json"
      [] url.ext = "png" -> "image/png"
      [] url.hostname = "fonts.googleapis.com" -> "text/css"
      [] OTHER -> "text/html"

\* the response fetch() resolves with
NetResp(url, status, id) == Resp(url, status, ContentTypeOf(url), "net", id)

\* an entry the previous generation's worker left in a store
OldResp(url) == Resp(url, 200, ContentTypeOf(url), "old", 0)

\* offlinePage(): the fixed fallback document
offlinePage == "<!DOCTYPE html>"


(***************************************************************************)
(* The Cache Storage (`caches`) and the worker's state.                    *)
(***************************************************************************)
VARIABLES
    cacheOrder,      \* names of the existing stores, in creation order (caches.keys())
    cacheData,       \* store name -> URL -> stored response (NoResp: no entry)
    phase,           \* lifecycle state of the worker instance
    inst,            \* position of the install handler
    addState,        \* per manifest entry: state of its cache.add(url)
    skipWaitingFlag, \* self.skipWaiting() has been called
    act,             \* position of the activate handler
    prevAct,         \* how the previous run of the activate handler ended
    delState,        \* per store name: state of its caches.delete(name)
    claimed,         \* self.clients.claim() has been called
    activations,     \* number of activate events dispatched
    tasks,           \* the strategy runs started by fetch events
    pendingPuts,     \* cache.put calls in flight (none of them is awaited)
    messages,        \* number of message events dispatched
    primes           \* per message: the caches.open(...).then(addAll) chain it started

vars == << cacheOrder, cacheData, phase, inst, addState, skipWaitingFlag, act,
           prevAct, delState, claimed, activations, tasks, pendingPuts,
           messages, primes >>

lifecycleVars == << phase, inst, addState, skipWaitingFlag >>
activateVars == << act, prevAct, delState, claimed, activations >>
messageVars == << messages, primes >>

TaskIds == 1..MaxTasks
MessageIds == 1..MaxMessages
ManifestIdx == 1..Len(Manifest)

EmptyStore == [u \in Urls |-> NoResp]

Exists(order, name) == \E i \in 1..Len(order) : order[i] = name

\* caches.open(name): the store is created when it does not exist
Open(order, name) == IF Exists(order, name) THEN order ELSE Append(order, name)

\* caches.delete(name)
Remove(order, name) == SelectSeq(order, LAMBDA n : n # name)

\* cache.match(request) on one store
CacheMatch(data, name, url) == data[name][url]

\* caches.match(request): the first store, in creation order, that has an entry
CachesMatch(order, data, url) ==
    LET hits == {i \in 1..Len(order) : data[order[i]][url] # NoResp}
    IN  IF hits = {} THEN NoResp
        ELSE data[order[CHOOSE i \in hits : \A j \in hits : i <= j]][url]

\* cache.put(request, response) taking effect
Put(data, name, url, response) ==
    [data EXCEPT ![name] = [@ EXCEPT ![url] = response]]

\* a strategy run: the locals of the async function and where it stands
IdleTask ==
    [st |-> "idle", strategy |-> "none", request |-> [url |-> URL_ROOT, accept |-> AcceptAny],
     cacheName |-> "", pc |-> "", cached |-> NoResp, response |-> NoResp,
     result |-> NoResp, fetches |-> 0, puts |-> 0, putState |-> "none",
     net |-> "none", netValue |-> NoResp]

\* a message slot whose message has started no addAll chain
IdlePrime == [st |-> "idle", urls |-> << >>, fetched |-> << >>, error |-> "none"]

\* the stores the previous generation left behind when this worker is installed
InitialCaches ==
    { [order |-> << >>, data |-> [n \in StoreNames |-> EmptyStore]],
      [order |-> << "openclaw-v1", RUNTIME_CACHE, "openclaw-runtime-v1" >>,
       data |-> [n \in StoreNames |->
                   CASE n = "openclaw-v1" ->
                          [EmptyStore EXCEPT ![URL_ROOT] = OldResp(URL_ROOT),
                                             ![URL_FONT_CSS] = OldResp(URL_FONT_CSS)]
                     [] n = RUNTIME_CACHE ->
                          [EmptyStore EXCEPT ![URL_MAIN_JS] = OldResp(URL_MAIN_JS)]
                     [] n = "openclaw-runtime-v1" ->
                          [EmptyStore EXCEPT ![URL_ICON] = OldResp(URL_ICON)]
                     [] OTHER -> EmptyStore]] }

\* the script has been evaluated and the install event is being dispatched
Init ==
    /\ \E c \in InitialCaches : cacheOrder = c.order /\ cacheData = c.data
    /\ phase = "installing"
    /\ inst = "open"
    /\ addState = [i \in ManifestIdx |-> "idle"]
    /\ skipWaitingFlag = FALSE
    /\ act = "idle"
    /\ prevAct = "none"
    /\ delState = [n \in StoreNames |-> "none"]
    /\ claimed = FALSE
    /\ activations = 0
    /\ tasks = [t \in TaskIds |-> IdleTask]
    /\ pendingPuts = {}
    /\ messages = 0
    /\ primes = [m \in MessageIds |-> IdlePrime]

(***************************************************************************)
(* install listener                                                        *)
(***************************************************************************)
\* caches.open(CACHE_NAME) resolves; the map() then calls cache.add on every entry
InstallOpen ==
    /\ inst = "open"
    /\ \E storeOk \in BOOLEAN :
         IF storeOk
         THEN /\ cacheOrder' = Open(cacheOrder, CACHE_NAME)
              /\ inst' = "adding"
              /\ addState' = [i \in ManifestIdx |-> "pending"]
              /\ phase' = phase
         ELSE \* the chain rejects: waitUntil fails the installation
              /\ inst' = "failed"
              /\ phase' = "redundant"
              /\ UNCHANGED << cacheOrder, addState >>
    /\ UNCHANGED << messageVars, cacheData, skipWaitingFlag, activateVars, tasks, pendingPuts >>

\* what one cache.add(url) ends as: it stores a 2xx response and rejects otherwise
AddOutcome(netOutcome, storeOk) ==
    IF netOutcome = NetworkError \/ ~Ok(NetResp(URL_ROOT, netOutcome, 0)) THEN "failed"
    ELSE IF ~storeOk THEN "failed"
    ELSE "stored"

\* Promise.all over promises without the catch: resolves only if every add succeeded
AllSettled_AllFulfilled(states) == \A i \in DOMAIN states : states[i] = "stored"

\* Promise.allSettled(...) has resolved: every cache.add has settled
AllSettled(states) == \A i \in DOMAIN states : states[i] \notin {"idle", "pending"}

\* cache.add(url) settles; .catch(e => console.warn(...)) swallows a rejection.
\* When it is the last one, Promise.allSettled resolves and the callback
\* .then(() => self.skipWaiting()) runs in the same turn: skipWaiting() has been
\* called while the promise given to waitUntil is still pending.
InstallAdd(i) ==
    /\ inst = "adding"
    /\ addState[i] = "pending"
    /\ \E netOutcome \in NetOutcomes, storeOk \in BOOLEAN :
         LET outcome == AddOutcome(netOutcome, storeOk)
         IN  /\ addState' = [addState EXCEPT ![i] = outcome]
             /\ skipWaitingFlag' = IF AllSettled([addState EXCEPT ![i] = outcome])
                                   THEN TRUE ELSE skipWaitingFlag
             /\ cacheData' = IF outcome = "stored"
                             THEN Put(cacheData, CACHE_NAME, Manifest[i],
                                      NetResp(Manifest[i], netOutcome, 0))
                             ELSE cacheData
    /\ UNCHANGED << messageVars, cacheOrder, phase, inst, activateVars, tasks,
                    pendingPuts >>

\* the promise of self.skipWaiting() resolves, and with it the promise given to
\* waitUntil: the worker is installed
InstallFinish ==
    /\ inst = "adding"
    /\ AllSettled(addState)
    /\ inst' = "done"
    /\ phase' = "installed"
    /\ UNCHANGED << messageVars, cacheOrder, cacheData, addState, skipWaitingFlag,
                    activateVars, tasks, pendingPuts >>


(***************************************************************************)
(* activate listener                                                       *)
(***************************************************************************)
\* the filter with the runtime store's name forgotten
IsOldCache_KeepsPrecacheOnly(name) == name # CACHE_NAME

\* the filter of the activate handler: the stores to delete
IsOldCache(name) == name # CACHE_NAME /\ name # RUNTIME_CACHE

\* The activate event is dispatched: to the installed worker when it takes over
\* (skipWaiting() or no older instance left), and again by a host that runs the
\* cutover a second time.
ActivateEvent ==
    /\ activations < MaxActivations
    /\ \/ phase = "installed"
       \/ /\ phase = "active"
          /\ act \in {"done", "failed"}
          /\ \A n \in StoreNames : delState[n] # "pending"
          /\ \A t \in TaskIds : tasks[t].st = "idle"
    /\ phase' = IF phase = "installed" THEN "activating" ELSE phase
    /\ prevAct' = IF phase = "installed" THEN "none" ELSE act
    /\ act' = "keys"
    /\ delState' = [n \in StoreNames |-> "none"]
    /\ activations' = activations + 1
    /\ UNCHANGED << messageVars, cacheOrder, cacheData, inst, addState, skipWaitingFlag, claimed,
                    tasks, pendingPuts >>

\* Promise.all(...) has resolved: every deletion has finished
AllDeleted(states) == \A n \in DOMAIN states : states[n] \in {"none", "deleted"}

\* the deletions that caches.keys().then(...) starts: one per old store
StartedDeletions(order) ==
    [n \in StoreNames |-> IF Exists(order, n) /\ IsOldCache(n) THEN "pending" ELSE "none"]

\* caches.keys() resolves; filter().map() calls caches.delete on every old store.
\* With no old store Promise.all([]) resolves and .then(() => self.clients.claim())
\* runs in the same turn.
ActivateKeys ==
    /\ act = "keys"
    /\ \E storeOk \in BOOLEAN :
         IF storeOk
         THEN /\ act' = "deleting"
              /\ delState' = StartedDeletions(cacheOrder)
              /\ claimed' = IF AllDeleted(StartedDeletions(cacheOrder))
                            THEN TRUE ELSE claimed
              /\ phase' = phase
         ELSE \* the chain rejects; the worker is activated all the same
              /\ act' = "failed"
              /\ phase' = "active"
              /\ delState' = delState
              /\ claimed' = claimed
    /\ UNCHANGED << messageVars, cacheOrder, cacheData, inst, addState, skipWaitingFlag,
                    prevAct, activations, tasks, pendingPuts >>

\* caches.delete(name).catch(() => true): a failed deletion counts as done
DeletionState_Swallowed(storeOk) == "deleted"

\* how the promise of one caches.delete(name) settles: nothing catches a rejection
DeletionState(storeOk) == IF storeOk THEN "deleted" ELSE "failed"

\* one caches.delete(name) settles; a rejection rejects Promise.all at once,
\* the deletions already started go on. When the last one resolves, Promise.all
\* resolves and .then(() => self.clients.claim()) runs in the same turn:
\* claim() has been called while the promise given to waitUntil is still pending.
ActivateDelete(name) ==
    /\ delState[name] = "pending"
    /\ \E storeOk \in BOOLEAN :
         /\ cacheOrder' = IF storeOk THEN Remove(cacheOrder, name) ELSE cacheOrder
         /\ cacheData' = IF storeOk THEN [cacheData EXCEPT ![name] = EmptyStore]
                         ELSE cacheData
         /\ delState' = [delState EXCEPT ![name] = DeletionState(storeOk)]
         /\ IF DeletionState(storeOk) = "failed"
            THEN act' = "failed" /\ phase' = "active"
            ELSE UNCHANGED << act, phase >>
         /\ claimed' = IF /\ act = "deleting"
                          /\ AllDeleted([delState EXCEPT ![name] = DeletionState(storeOk)])
                       THEN TRUE ELSE claimed
    /\ UNCHANGED << messageVars, inst, addState, skipWaitingFlag, prevAct, activations,
                    tasks, pendingPuts >>

\* the promise of self.clients.claim() resolves, and with it the promise given
\* to waitUntil: the worker is active
ActivateFinish ==
    /\ act = "deleting"
    /\ AllDeleted(delState)
    /\ act' = "done"
    /\ phase' = "active"
    /\ UNCHANGED << messageVars, cacheOrder, cacheData, inst, addState, skipWaitingFlag,
                    prevAct, delState, claimed, activations, tasks, pendingPuts >>

(***************************************************************************)
(* fetch listener                                                          *)
(***************************************************************************)
\* request.url.startsWith("http")
StartsWithHttp(url) == url.scheme \in {"http", "https"}

\* request.headers.get("accept")?.includes("text/html")
AcceptsHtml(request) == request.accept = AcceptDocument

\* url.pathname.match(/\.(js|css)$/)
IsScriptOrStyle(url) == url.ext \in {"js", "css"}

\* the listener without its first check: calls to the API host are intercepted
Route_InterceptsApi(request) ==
    IF ~StartsWithHttp(request.url) THEN << "none", "" >>
    ELSE IF request.url.hostname \in {"fonts.googleapis.com", "fonts.gstatic.com"}
         THEN << "cacheFirst", CACHE_NAME >>
    ELSE IF AcceptsHtml(request) THEN << "networkFirst", CACHE_NAME >>
    ELSE IF IsScriptOrStyle(request.url) THEN << "staleWhileRevalidate", RUNTIME_CACHE >>
    ELSE << "networkFirst", RUNTIME_CACHE >>

\* the listener with the HTML check moved ahead of the font check
Route_HtmlBeforeFonts(request) ==
    IF request.url.hostname = "api.anthropic.com" THEN << "none", "" >>
    ELSE IF ~StartsWithHttp(request.url) THEN << "none", "" >>
    ELSE IF AcceptsHtml(request) THEN << "networkFirst", CACHE_NAME >>
    ELSE IF request.url.hostname \in {"fonts.googleapis.com", "fonts.gstatic.com"}
         THEN << "cacheFirst", CACHE_NAME >>
    ELSE IF IsScriptOrStyle(request.url) THEN << "staleWhileRevalidate", RUNTIME_CACHE >>
    ELSE << "networkFirst", RUNTIME_CACHE >>

\* the route the listener takes: the strategy and the store it is run against
Route(request) ==
    IF request.url.hostname = "api.anthropic.com" THEN << "none", "" >>
    ELSE IF ~StartsWithHttp(request.url) THEN << "none", "" >>
    ELSE IF request.url.hostname \in {"fonts.googleapis.com", "fonts.gstatic.com"}
         THEN << "cacheFirst", CACHE_NAME >>
    ELSE IF AcceptsHtml(request) THEN << "networkFirst", CACHE_NAME >>
    ELSE IF IsScriptOrStyle(request.url) THEN << "staleWhileRevalidate", RUNTIME_CACHE >>
    ELSE << "networkFirst", RUNTIME_CACHE >>

\* where a strategy stands at its first await
FirstAwait(strategy) ==
    CASE strategy = "cacheFirst" -> "match"
      [] strategy = "networkFirst" -> "fetch"
      [] strategy = "staleWhileRevalidate" -> "open"
      [] OTHER -> ""

\* A fetch event reaches the active worker.  The listener returns without
\* respondWith for a bypassed request, else starts the strategy, which runs to
\* its first await (networkFirst has then called fetch).
FetchEvent(t, request) ==
    /\ phase = "active"
    /\ act \in {"done", "failed"}
    /\ tasks[t].st = "idle"
    /\ \A u \in TaskIds : u < t => tasks[u].st # "idle"
    /\ LET route == Route(request)
       IN  tasks' = [tasks EXCEPT ![t] =
                       [IdleTask EXCEPT
                          !.st = IF route[1] = "none" THEN "bypass" ELSE "run",
                          !.strategy = route[1],
                          !.request = request,
                          !.cacheName = route[2],
                          !.pc = FirstAwait(route[1]),
                          !.fetches = IF route[1] = "networkFirst" THEN 1 ELSE 0]]
    /\ UNCHANGED << messageVars, cacheOrder, cacheData, lifecycleVars, activateVars, pendingPuts >>


(***************************************************************************)
(* The strategies.                                                         *)
(***************************************************************************)
\* new Response(body, { status: 503 })
ServiceUnavailable(body) == Resp(NoUrl, 503, "text/plain", body, 0)

\* new Response(offlinePage()) with the headers left out
OfflineResponse_NoContentType == Resp(NoUrl, 200, "text/plain", offlinePage, 0)

\* new Response(offlinePage(), { headers: { "Content-Type": "text/html" } })
OfflineResponse == Resp(NoUrl, 200, "text/html", offlinePage, 0)

\* the async function returns `result`
Return(task, result) == [task EXCEPT !.st = "done", !.result = result]

\* the async function throws: the promise given to respondWith rejects
Throw(task) == [task EXCEPT !.st = "rejected"]

\* cache.put(request, response.clone()) is called and not awaited
PutCall(t, name, url, response) ==
    [task |-> t, cacheName |-> name, url |-> url, response |-> response]

\* ---- cacheFirst ----

\* the early return on a hit left out: the network is always consulted
CacheFirstHit_Never(cached) == FALSE

\* `if (cached) return cached;`
CacheFirstHit(cached) == cached # NoResp

\* const cached = await caches.match(request); on a miss fetch(request) is called
CacheFirstMatch(t) ==
    /\ tasks[t].st = "run" /\ tasks[t].strategy = "cacheFirst" /\ tasks[t].pc = "match"
    /\ \E storeOk \in BOOLEAN :
         LET cached == CachesMatch(cacheOrder, cacheData, tasks[t].request.url)
         IN  tasks' = [tasks EXCEPT ![t] =
                         IF ~storeOk THEN Throw(@)
                         ELSE IF CacheFirstHit(cached)
                              THEN Return([@ EXCEPT !.cached = cached], cached)
                         ELSE [@ EXCEPT !.pc = "fetch", !.fetches = @ + 1]]
    /\ UNCHANGED << messageVars, cacheOrder, cacheData, lifecycleVars, activateVars, pendingPuts >>

\* const response = await fetch(request), inside try
CacheFirstFetch(t) ==
    /\ tasks[t].st = "run" /\ tasks[t].strategy = "cacheFirst" /\ tasks[t].pc = "fetch"
    /\ \E netOutcome \in NetOutcomes :
         LET response == NetResp(tasks[t].request.url, netOutcome, t)
         IN  tasks' = [tasks EXCEPT ![t] =
                         IF netOutcome = NetworkError
                         THEN Return(@, ServiceUnavailable("Offline"))
                         ELSE IF Ok(response)
                              THEN [@ EXCEPT !.response = response, !.pc = "open"]
                         ELSE Return([@ EXCEPT !.response = response], response)]
    /\ UNCHANGED << messageVars, cacheOrder, cacheData, lifecycleVars, activateVars, pendingPuts >>

\* const cache = await caches.open(cacheName); cache.put(...); return response;
\* a failure of open is caught by the same catch as a network error
CacheFirstOpen(t) ==
    /\ tasks[t].st = "run" /\ tasks[t].strategy = "cacheFirst" /\ tasks[t].pc = "open"
    /\ \E storeOk \in BOOLEAN :
         IF storeOk
         THEN /\ cacheOrder' = Open(cacheOrder, tasks[t].cacheName)
              /\ pendingPuts' = pendingPuts \cup
                    {PutCall(t, tasks[t].cacheName, tasks[t].request.url, tasks[t].response)}
              /\ tasks' = [tasks EXCEPT ![t] =
                             Return([@ EXCEPT !.puts = @ + 1, !.putState = "pending"],
                                    @.response)]
         ELSE /\ tasks' = [tasks EXCEPT ![t] = Return(@, ServiceUnavailable("Offline"))]
              /\ UNCHANGED << cacheOrder, pendingPuts >>
    /\ UNCHANGED << messageVars, cacheData, lifecycleVars, activateVars >>

\* ---- networkFirst ----

\* const response = await fetch(request), inside try
NetworkFirstFetch(t) ==
    /\ tasks[t].st = "run" /\ tasks[t].strategy = "networkFirst" /\ tasks[t].pc = "fetch"
    /\ \E netOutcome \in NetOutcomes :
         LET response == NetResp(tasks[t].request.url, netOutcome, t)
         IN  tasks' = [tasks EXCEPT ![t] =
                         IF netOutcome = NetworkError THEN [@ EXCEPT !.pc = "match"]
                         ELSE IF Ok(response)
                              THEN [@ EXCEPT !.response = response, !.pc = "open"]
                         ELSE Return([@ EXCEPT !.response = response], response)]
    /\ UNCHANGED << messageVars, cacheOrder, cacheData, lifecycleVars, activateVars, pendingPuts >>

\* const cache = await caches.open(cacheName); cache.put(...); return response;
\* a failure of open enters the catch block
NetworkFirstOpen(t) ==
    /\ tasks[t].st = "run" /\ tasks[t].strategy = "networkFirst" /\ tasks[t].pc = "open"
    /\ \E storeOk \in BOOLEAN :
         IF storeOk
         THEN /\ cacheOrder' = Open(cacheOrder, tasks[t].cacheName)
              /\ pendingPuts' = pendingPuts \cup
                    {PutCall(t, tasks[t].cacheName, tasks[t].request.url, tasks[t].response)}
              /\ tasks' = [tasks EXCEPT ![t] =
                             Return([@ EXCEPT !.puts = @ + 1, !.putState = "pending"],
                                    @.response)]
         ELSE /\ tasks' = [tasks EXCEPT ![t] = [@ EXCEPT !.pc = "match"]]
              /\ UNCHANGED << cacheOrder, pendingPuts >>
    /\ UNCHANGED << messageVars, cacheData, lifecycleVars, activateVars >>

\* catch { const cached = await caches.match(request); if (cached) return cached;
NetworkFirstMatch(t) ==
    /\ tasks[t].st = "run" /\ tasks[t].strategy = "networkFirst" /\ tasks[t].pc = "match"
    /\ \E storeOk \in BOOLEAN :
         LET cached == CachesMatch(cacheOrder, cacheData, tasks[t].request.url)
         IN  tasks' = [tasks EXCEPT ![t] =
                         IF ~storeOk THEN Throw(@)
                         ELSE IF cached # NoResp
                              THEN Return([@ EXCEPT !.cached = cached], cached)
                         ELSE [@ EXCEPT !.pc = "matchRoot"]]
    /\ UNCHANGED << messageVars, cacheOrder, cacheData, lifecycleVars, activateVars, pendingPuts >>

\* return offlineFallback || new Response(offlinePage(), ...)
NetworkFirstFallback(request, offlineFallback) ==
    IF offlineFallback # NoResp THEN offlineFallback ELSE OfflineResponse

\* const offlineFallback = await caches.match("/"); return ...
NetworkFirstMatchRoot(t) ==
    /\ tasks[t].st = "run" /\ tasks[t].strategy = "networkFirst"
    /\ tasks[t].pc = "matchRoot"
    /\ \E storeOk \in BOOLEAN :
         LET offlineFallback == CachesMatch(cacheOrder, cacheData, URL_ROOT)
         IN  tasks' = [tasks EXCEPT ![t] =
                         IF ~storeOk THEN Throw(@)
                         ELSE Return(@, NetworkFirstFallback(@.request, offlineFallback))]
    /\ UNCHANGED << messageVars, cacheOrder, cacheData, lifecycleVars, activateVars, pendingPuts >>

\* ---- staleWhileRevalidate ----

\* const cache = await caches.open(cacheName), outside any try
StaleWhileRevalidateOpen(t) ==
    /\ tasks[t].st = "run" /\ tasks[t].strategy = "staleWhileRevalidate"
    /\ tasks[t].pc = "open"
    /\ \E storeOk \in BOOLEAN :
         IF storeOk
         THEN /\ cacheOrder' = Open(cacheOrder, tasks[t].cacheName)
              /\ tasks' = [tasks EXCEPT ![t] = [@ EXCEPT !.pc = "match"]]
         ELSE /\ tasks' = [tasks EXCEPT ![t] = Throw(@)]
              /\ cacheOrder' = cacheOrder
    /\ UNCHANGED << messageVars, cacheData, lifecycleVars, activateVars, pendingPuts >>

\* `await networkPromise || cached`: the network is awaited even on a hit
StaleHit_AwaitNetwork(cached) == FALSE

\* `cached || await networkPromise`: a hit is returned without the await
StaleHit(cached) == cached # NoResp

\* const cached = await cache.match(request); fetch(request) is called and the
\* function returns the hit, or waits for networkPromise on a miss
StaleWhileRevalidateMatch(t) ==
    /\ tasks[t].st = "run" /\ tasks[t].strategy = "staleWhileRevalidate"
    /\ tasks[t].pc = "match"
    /\ \E storeOk \in BOOLEAN :
         LET cached == CacheMatch(cacheData, tasks[t].cacheName, tasks[t].request.url)
         IN  tasks' = [tasks EXCEPT ![t] =
                         IF ~storeOk THEN Throw(@)
                         ELSE IF StaleHit(cached)
                              THEN Return([@ EXCEPT !.cached = cached, !.fetches = @ + 1,
                                                    !.net = "pending"], cached)
                         ELSE [@ EXCEPT !.cached = cached, !.pc = "await",
                                        !.fetches = @ + 1, !.net = "pending"]]
    /\ UNCHANGED << messageVars, cacheOrder, cacheData, lifecycleVars, activateVars, pendingPuts >>

\* cached || await networkPromise, without the synthesized response
StaleResult_NoFallback(cached, netValue) ==
    IF cached # NoResp THEN cached ELSE netValue

\* cached || await networkPromise || new Response("", { status: 503 })
StaleResult(cached, netValue) ==
    IF cached # NoResp THEN cached
    ELSE IF netValue # NoResp THEN netValue
    ELSE ServiceUnavailable("")

\* the run after networkPromise has resolved to netValue: a run that waits at
\* `await networkPromise` (a miss) resumes and returns in the same turn, a run
\* that returned its hit is left as it is
StaleSettled(task, netValue) ==
    LET settled == [task EXCEPT !.net = "settled", !.netValue = netValue]
    IN  IF task.st = "run" /\ task.pc = "await"
        THEN Return(settled, StaleResult(task.cached, netValue))
        ELSE settled

\* fetch(request).then(response => { if (response.ok) cache.put(...); return response })
\*               .catch(() => null) settles, and `await networkPromise` with it
StaleWhileRevalidateNetwork(t) ==
    /\ tasks[t].strategy = "staleWhileRevalidate" /\ tasks[t].net = "pending"
    /\ \E netOutcome \in NetOutcomes :
         LET response == NetResp(tasks[t].request.url, netOutcome, t)
         IN  IF netOutcome = NetworkError
             THEN /\ tasks' = [tasks EXCEPT ![t] = StaleSettled(@, NoResp)]
                  /\ pendingPuts' = pendingPuts
             ELSE /\ tasks' = [tasks EXCEPT ![t] =
                                 StaleSettled(
                                    [@ EXCEPT !.response = response,
                                              !.puts = IF Ok(response) THEN @ + 1 ELSE @,
                                              !.putState = IF Ok(response) THEN "pending"
                                                           ELSE @],
                                    response)]
                  /\ pendingPuts' = IF Ok(response)
                                    THEN pendingPuts \cup
                                           {PutCall(t, tasks[t].cacheName,
                                                    tasks[t].request.url, response)}
                                    ELSE pendingPuts
    /\ UNCHANGED << messageVars, cacheOrder, cacheData, lifecycleVars, activateVars >>

\* ---- the store ----

\* a cache.put in flight settles: the entry is written, or the store fails
PutSettle(p) ==
    /\ p \in pendingPuts
    /\ pendingPuts' = pendingPuts \ {p}
    /\ \E storeOk \in BOOLEAN :
         IF storeOk /\ Exists(cacheOrder, p.cacheName)
         THEN /\ cacheData' = Put(cacheData, p.cacheName, p.url, p.response)
              /\ tasks' = [tasks EXCEPT ![p.task].putState = "stored"]
         ELSE /\ cacheData' = cacheData
              /\ tasks' = [tasks EXCEPT ![p.task].putState = "failed"]
    /\ UNCHANGED << messageVars, cacheOrder, lifecycleVars, activateVars >>

(***************************************************************************)
(* message listener                                                        *)
(***************************************************************************)
\* the URLs a page asks the worker to cache, in the order it lists them
PrimeUrlPool == << URL_MAIN_JS, URL_BUNDLE_JS, URL_ICON >>

\* the sub-lists of a list that keep its order
RECURSIVE SubSeqs(_)
SubSeqs(seq) ==
    IF seq = << >> THEN { << >> }
    ELSE LET rest == SubSeqs(Tail(seq))
         IN  rest \cup { << Head(seq) >> \o r : r \in rest }

\* event.data.urls of a CACHE_URLS message
PrimeUrlLists == { l \in SubSeqs(PrimeUrlPool) : Len(l) <= MaxPrimeUrls }

\* event.data: no data, a type the listener does not know, or one of its commands
MessageData ==
    { [type |-> "none", urls |-> << >>], [type |-> "PING", urls |-> << >>],
      [type |-> "SKIP_WAITING", urls |-> << >>] }
    \cup { [type |-> "CACHE_URLS", urls |-> l] : l \in PrimeUrlLists }

\* The message event is dispatched and the listener runs to its end:
\* SKIP_WAITING calls self.skipWaiting(), CACHE_URLS calls caches.open(RUNTIME_CACHE)
\* and leaves the chain running; nothing awaits it or catches its rejection.
MessageEvent(m, data) ==
    /\ phase # "redundant"
    /\ messages < MaxMessages
    /\ m = messages + 1
    /\ messages' = messages + 1
    /\ skipWaitingFlag' = IF data.type = "SKIP_WAITING" THEN TRUE ELSE skipWaitingFlag
    /\ primes' = IF data.type = "CACHE_URLS"
                 THEN [primes EXCEPT ![m] = [st |-> "open", urls |-> data.urls,
                                             fetched |-> [i \in DOMAIN data.urls |-> "pending"],
                                             error |-> "none"]]
                 ELSE primes
    /\ UNCHANGED << cacheOrder, cacheData, phase, inst, addState, activateVars,
                    tasks, pendingPuts >>

\* caches.open(RUNTIME_CACHE) settles; .then(cache => cache.addAll(urls)) starts
\* one fetch per URL
PrimeOpen(m) ==
    /\ primes[m].st = "open"
    /\ \E storeOk \in BOOLEAN :
         IF storeOk
         THEN /\ cacheOrder' = Open(cacheOrder, RUNTIME_CACHE)
              /\ primes' = [primes EXCEPT ![m].st = "adding"]
         ELSE /\ cacheOrder' = cacheOrder
              /\ primes' = [primes EXCEPT ![m].st = "rejected", ![m].error = "store"]
    /\ UNCHANGED << cacheData, lifecycleVars, activateVars, tasks, pendingPuts, messages >>

\* one fetch of cache.addAll(urls) settles: a network error or a response that
\* is not ok rejects addAll at once, and addAll then stores nothing
AddAllFetched(prime, i, netOutcome) ==
    IF netOutcome = NetworkError \/ ~Ok(NetResp(prime.urls[i], netOutcome, 0))
    THEN [prime EXCEPT !.fetched[i] = "failed", !.st = "rejected", !.error = "network"]
    ELSE [prime EXCEPT !.fetched[i] = "ok"]

\* a fetch of addAll settles
PrimeFetch(m, i) ==
    /\ primes[m].st = "adding"
    /\ i \in DOMAIN primes[m].urls
    /\ primes[m].fetched[i] = "pending"
    /\ \E netOutcome \in NetOutcomes :
         primes' = [primes EXCEPT ![m] = AddAllFetched(primes[m], i, netOutcome)]
    /\ UNCHANGED << cacheOrder, cacheData, lifecycleVars, activateVars, tasks,
                    pendingPuts, messages >>

\* the store `name` after every response of the list has been written to it
RECURSIVE PutAll(_, _, _)
PutAll(data, name, urls) ==
    IF urls = << >> THEN data
    ELSE PutAll(Put(data, name, Head(urls), NetResp(Head(urls), 200, 0)), name, Tail(urls))

\* every fetch of addAll has succeeded: the responses are written in one batch,
\* or the store fails and addAll rejects
PrimeCommit(m) ==
    /\ primes[m].st = "adding"
    /\ \A i \in DOMAIN primes[m].urls : primes[m].fetched[i] = "ok"
    /\ \E storeOk \in BOOLEAN :
         IF storeOk /\ Exists(cacheOrder, RUNTIME_CACHE)
         THEN /\ cacheData' = PutAll(cacheData, RUNTIME_CACHE, primes[m].urls)
              /\ primes' = [primes EXCEPT ![m].st = "stored"]
         ELSE /\ cacheData' = cacheData
              /\ primes' = [primes EXCEPT ![m].st = "rejected", ![m].error = "store"]
    /\ UNCHANGED << cacheOrder, lifecycleVars, activateVars, tasks, pendingPuts, messages >>

\* the message handler and the chains it starts
NextMessage ==
    \/ \E m \in MessageIds, data \in MessageData : MessageEvent(m, data)
    \/ \E m \in MessageIds : PrimeOpen(m)
    \/ \E m \in MessageIds, i \in 1..Len(PrimeUrlPool) : PrimeFetch(m, i)
    \/ \E m \in MessageIds : PrimeCommit(m)

\* the install and activate handlers
NextLifecycle ==
    \/ InstallOpen
    \/ \E i \in ManifestIdx : InstallAdd(i)
    \/ InstallFinish
    \/ ActivateEvent
    \/ ActivateKeys
    \/ \E n \in StoreNames : ActivateDelete(n)
    \/ ActivateFinish

\* the fetch handler, the strategies it starts and their writes
NextServe ==
    \/ \E t \in TaskIds, request \in Requests : FetchEvent(t, request)
    \/ \E t \in TaskIds : CacheFirstMatch(t)
    \/ \E t \in TaskIds : CacheFirstFetch(t)
    \/ \E t \in TaskIds : CacheFirstOpen(t)
    \/ \E t \in TaskIds : NetworkFirstFetch(t)
    \/ \E t \in TaskIds : NetworkFirstOpen(t)
    \/ \E t \in TaskIds : NetworkFirstMatch(t)
    \/ \E t \in TaskIds : NetworkFirstMatchRoot(t)
    \/ \E t \in TaskIds : StaleWhileRevalidateOpen(t)
    \/ \E t \in TaskIds : StaleWhileRevalidateMatch(t)
    \/ \E t \in TaskIds : StaleWhileRevalidateNetwork(t)
    \/ \E p \in pendingPuts : PutSettle(p)

Next == NextLifecycle \/ NextServe \/ NextMessage

\* the whole worker, from the install event on
Spec == Init /\ [][Next]_vars

\* the worker up to the end of its cutover, before it serves requests
SpecLifecycle == Init /\ [][NextLifecycle]_vars

\* how the install's cache.add calls ended when only the listed URLs failed
AddStates(failedUrls) ==
    [i \in ManifestIdx |-> IF Manifest[i] \in failedUrls THEN "failed" ELSE "stored"]

\* the precache store after such an install
PrecachedStore(failedUrls) ==
    [u \in Urls |-> IF \E i \in ManifestIdx : Manifest[i] = u /\ u \notin failedUrls
                    THEN NetResp(u, 200, 0) ELSE NoResp]

\* States of Spec in which the worker starts to serve requests:
\*  - a first install: the cache.add of "/" and of the font stylesheet failed,
\*    the others succeeded, and the cutover found nothing to delete;
\*  - an upgrade: every cache.add succeeded and the deletion of "openclaw-v1"
\*    failed, so that the old store stays, ahead of the current ones in creation
\*    order.
ServingStates ==
    { [order |-> << CACHE_NAME >>,
       data |-> [n \in StoreNames |->
                   IF n = CACHE_NAME THEN PrecachedStore({URL_ROOT, URL_FONT_CSS})
                   ELSE EmptyStore],
       addState |-> AddStates({URL_ROOT, URL_FONT_CSS}),
       act |-> "done", claimed |-> TRUE,
       delState |-> [n \in StoreNames |-> "none"]],
      [order |-> << "openclaw-v1", RUNTIME_CACHE, CACHE_NAME >>,
       data |-> [n \in StoreNames |->
                   CASE n = "openclaw-v1" ->
                          [EmptyStore EXCEPT ![URL_ROOT] = OldResp(URL_ROOT),
                                             ![URL_FONT_CSS] = OldResp(URL_FONT_CSS)]
                     [] n = RUNTIME_CACHE ->
                          [EmptyStore EXCEPT ![URL_MAIN_JS] = OldResp(URL_MAIN_JS)]
                     [] n = CACHE_NAME -> PrecachedStore({})
                     [] OTHER -> EmptyStore],
       addState |-> AddStates({}),
       act |-> "failed", claimed |-> FALSE,
       delState |-> [n \in StoreNames |->
                       CASE n = "openclaw-v1" -> "failed"
                         [] n = "openclaw-runtime-v1" -> "deleted"
                         [] OTHER -> "none"]] }

\* the worker is active and no fetch event has been dispatched yet
InitServe ==
    /\ \E c \in ServingStates :
          /\ cacheOrder = c.order /\ cacheData = c.data
          /\ addState = c.addState
          /\ act = c.act /\ claimed = c.claimed /\ delState = c.delState
    /\ phase = "active"
    /\ inst = "done"
    /\ skipWaitingFlag = TRUE
    /\ prevAct = "none"
    /\ activations = 1
    /\ tasks = [t \in TaskIds |-> IdleTask]
    /\ pendingPuts = {}
    /\ messages = 0
    /\ primes = [m \in MessageIds |-> IdlePrime]

\* the active worker serving requests
SpecServe == InitServe /\ [][NextServe]_vars

\* the active worker serving requests while pages send it messages
NextServeMessage == NextServe \/ NextMessage

SpecServeMessage == InitServe /\ [][NextServeMessage]_vars

\* a message reaches the worker while it installs or once it serves
InitMessage == Init \/ InitServe

\* the worker handling messages
SpecMessage == InitMessage /\ [][NextMessage]_vars

\* InitServe describes states of Spec: SpecLifecycle, whose behaviours are
\* behaviours of Spec, reaches each of them (TLC finds the negation of each
\* violated)
ServingStateFirstInstall == InitServe /\ cacheOrder = << CACHE_NAME >>
ServingStateOldStoreLeft == InitServe /\ Len(cacheOrder) = 3

(***************************************************************************)
(* Properties.                                                             *)
(***************************************************************************)
\* a status in the 2xx range
Is2xx(response) == response.status \in 200..299

\* the response a strategy run obtained from the network (its id is the run's)
FromStrategy(response) == response.id \in TaskIds

\* C1: error responses are never written to a store: every entry and every write
\* in flight that a strategy issued is a 2xx response, and a strategy run whose
\* network response was not 2xx has issued no write.
C1_NoErrorResponseStored ==
    /\ \A n \in StoreNames, u \in Urls :
         FromStrategy(cacheData[n][u]) => Is2xx(cacheData[n][u])
    /\ \A p \in pendingPuts : Is2xx(p.response)
    /\ \A t \in TaskIds :
         (tasks[t].response # NoResp /\ ~Is2xx(tasks[t].response)) => tasks[t].puts = 0

\* C1 witness: a strategy run got a non-2xx response and returned while another
\* run's response is in a store
C1_Witness ==
    \E t \in TaskIds :
       /\ tasks[t].st = "done" /\ tasks[t].response.status = 404
       /\ \E n \in StoreNames, u \in Urls : FromStrategy(cacheData[n][u])

\* C2: no strategy run ends with a rejected promise, whatever fails (stated as
\* the claim has it; the source lets store failures escape)
C2_NeverRejects == \A t \in TaskIds : tasks[t].st # "rejected"

\* C3: when networkFirst returns after a 2xx fetch, it returns the network
\* response and the target store holds that response under the request's key at
\* that moment (stated as the claim has it; the source does not await the put)
C3_NetworkFirstStoredAtReturn ==
    [][\A t \in TaskIds :
         (/\ tasks[t].strategy = "networkFirst"
          /\ tasks[t].st = "run" /\ tasks'[t].st = "done"
          /\ Is2xx(tasks'[t].response))
         => /\ tasks'[t].result = tasks'[t].response
            /\ cacheData'[tasks[t].cacheName][tasks[t].request.url] = tasks'[t].response
      ]_vars

\* C4: when networkFirst's fetch fails and the lookup of the request misses, a
\* request that is not a document request gets a 503 response (stated as the
\* claim has it; the source returns the fallback document to every request)
C4_DefaultGets503 ==
    \A t \in TaskIds :
       (/\ tasks[t].strategy = "networkFirst" /\ tasks[t].st = "done"
        /\ tasks[t].pc = "matchRoot" /\ tasks[t].response = NoResp
        /\ tasks[t].request.accept = AcceptAny)
       => tasks[t].result.status = 503

\* C5: a cacheFirst lookup that finds a stored entry returns that entry, calls
\* fetch zero times and changes no store and issues no write.
C5_CacheFirstHit ==
    [][\A t \in TaskIds :
         (/\ tasks[t].strategy = "cacheFirst" /\ tasks[t].st = "run"
          /\ tasks[t].pc = "match" /\ tasks'[t] # tasks[t]
          /\ tasks'[t].st # "rejected"
          /\ \E n \in StoreNames :
                Exists(cacheOrder, n) /\ cacheData[n][tasks[t].request.url] # NoResp)
         => /\ tasks'[t].st = "done"
            /\ tasks'[t].result = CachesMatch(cacheOrder, cacheData, tasks[t].request.url)
            /\ tasks'[t].result # NoResp
            /\ tasks'[t].fetches = 0 /\ tasks'[t].puts = 0
            /\ UNCHANGED << cacheOrder, cacheData, pendingPuts >>
      ]_vars

\* C5 witness: a cacheFirst run has returned a stored entry
C5_Witness ==
    \E t \in TaskIds :
       /\ tasks[t].strategy = "cacheFirst" /\ tasks[t].st = "done"
       /\ tasks[t].cached # NoResp /\ tasks[t].result = tasks[t].cached
       /\ tasks[t].fetches = 0

\* C6: a staleWhileRevalidate lookup that finds an entry in the target store
\* returns that entry in the same step, with exactly one fetch started and still
\* in flight; whatever that fetch does afterwards, the run stays returned with
\* the stored entry and one fetch.
C6_StaleHit ==
    /\ [][\A t \in TaskIds :
            (/\ tasks[t].strategy = "staleWhileRevalidate" /\ tasks[t].st = "run"
             /\ tasks[t].pc = "match" /\ tasks'[t] # tasks[t]
             /\ tasks'[t].st # "rejected"
             /\ cacheData[tasks[t].cacheName][tasks[t].request.url] # NoResp)
            => /\ tasks'[t].st = "done"
               /\ tasks'[t].result = cacheData[tasks[t].cacheName][tasks[t].request.url]
               /\ tasks'[t].fetches = 1
               /\ tasks'[t].net = "pending"
         ]_vars
    /\ [][\A t \in TaskIds :
            (tasks[t].strategy = "staleWhileRevalidate" /\ tasks[t].st = "done"
             /\ tasks[t].cached # NoResp)
            => /\ tasks'[t].st = "done"
               /\ tasks'[t].result = tasks[t].result
               /\ tasks'[t].fetches = 1
         ]_vars

\* C6 witness: the revalidation fetch of a run that returned a stored entry has
\* settled with a different response
C6_Witness ==
    \E t \in TaskIds :
       /\ tasks[t].strategy = "staleWhileRevalidate" /\ tasks[t].st = "done"
       /\ tasks[t].cached # NoResp /\ tasks[t].result = tasks[t].cached
       /\ tasks[t].net = "settled" /\ tasks[t].netValue # NoResp
       /\ tasks[t].netValue # tasks[t].result


\* C7: the install never fails because of its cache.add calls: once every add has
\* settled, in whatever way, the handler can finish; when it has finished every
\* add has settled, every URL whose add succeeded is in the precache store, and
\* skipWaiting() has been called.
C7_PrecacheCompletes ==
    /\ (inst = "failed" => \A i \in ManifestIdx : addState[i] = "idle")
    /\ ((inst = "adding" /\ \A i \in ManifestIdx : addState[i] \in {"stored", "failed"})
          => (skipWaitingFlag /\ ENABLED InstallFinish))
    /\ (inst = "done" =>
          /\ \A i \in ManifestIdx :
                /\ addState[i] \in {"stored", "failed"}
                /\ addState[i] = "stored" =>
                     /\ Exists(cacheOrder, CACHE_NAME)
                     /\ cacheData[CACHE_NAME][Manifest[i]] # NoResp
          /\ skipWaitingFlag
          /\ phase # "installing")

\* C7 witness: the install has finished with one add failed and the others stored
C7_Witness ==
    /\ inst = "done" /\ skipWaitingFlag
    /\ \E i \in ManifestIdx :
          /\ addState[i] = "failed"
          /\ cacheData[CACHE_NAME][Manifest[i]] = NoResp
          /\ \A j \in ManifestIdx \ {i} :
                addState[j] = "stored" /\ cacheData[CACHE_NAME][Manifest[j]] # NoResp

\* a step of the activate handler
CutoverStep == ActivateKeys \/ (\E n \in StoreNames : ActivateDelete(n)) \/ ActivateFinish

\* C8: when the activate handler has completed, no store with another name than
\* the two current ones exists; clients.claim() is called only when no deletion
\* is outstanding and no such store is left; and no step of the handler removes
\* a current store or changes its contents.
C8_CutoverPostcondition ==
    /\ [](act = "done" =>
            \A n \in StoreNames :
               Exists(cacheOrder, n) => n \in {CACHE_NAME, RUNTIME_CACHE})
    /\ [][((~claimed /\ claimed') \/ ActivateFinish) =>
            \A n \in StoreNames :
               /\ delState'[n] # "pending"
               /\ Exists(cacheOrder', n) => n \in {CACHE_NAME, RUNTIME_CACHE}
         ]_vars
    /\ [][CutoverStep =>
            \A n \in {CACHE_NAME, RUNTIME_CACHE} :
               /\ cacheData'[n] = cacheData[n]
               /\ Exists(cacheOrder, n) => Exists(cacheOrder', n)
         ]_vars

\* C8 witness: the handler has completed after deleting both old stores, and
\* both current stores exist with their entries
C8_Witness ==
    /\ act = "done" /\ claimed
    /\ \A n \in StaleNames : delState[n] = "deleted"
    /\ cacheOrder = << RUNTIME_CACHE, CACHE_NAME >>
    /\ cacheData[RUNTIME_CACHE][URL_MAIN_JS] # NoResp
    /\ cacheData[CACHE_NAME][URL_ROOT] # NoResp

\* C9: a run of the activate handler that follows a completed run finds nothing
\* to delete, and none of its steps changes the set of stores or their contents.
C9_CutoverIdempotent ==
    /\ [](prevAct = "done" => \A n \in StoreNames : delState[n] = "none")
    /\ [][(prevAct = "done" /\ CutoverStep) =>
            UNCHANGED << cacheOrder, cacheData >>]_vars

\* C9 witness: a second run has completed after a first run that deleted the
\* two old stores
C9_Witness ==
    /\ prevAct = "done" /\ act = "done"
    /\ cacheOrder = << RUNTIME_CACHE, CACHE_NAME >>

\* C10: a networkFirst run for a document request whose fetch failed and whose
\* lookup of the request missed returns a 2xx response of type text/html.
C10_OfflineFallback ==
    \A t \in TaskIds :
       (/\ tasks[t].strategy = "networkFirst" /\ tasks[t].st = "done"
        /\ tasks[t].request.accept = AcceptDocument
        /\ tasks[t].response = NoResp /\ tasks[t].pc = "matchRoot")
       => /\ Is2xx(tasks[t].result)
          /\ tasks[t].result.type = "text/html"

\* C10 witness: a document request got the generated offline page
C10_Witness ==
    \E t \in TaskIds :
       /\ tasks[t].strategy = "networkFirst" /\ tasks[t].st = "done"
       /\ tasks[t].request.accept = AcceptDocument
       /\ tasks[t].response = NoResp /\ tasks[t].pc = "matchRoot"
       /\ tasks[t].result.body = offlinePage /\ tasks[t].result.status = 200


\* the request is one the listener must not intercept: it goes to the API host,
\* or its URL has no http(s) scheme
IsBypassRequest(request) ==
    \/ request.url.hostname = "api.anthropic.com"
    \/ request.url.scheme \notin {"http", "https"}

\* C11: the fetch listener, given a bypass request, returns without respondWith:
\* the step starts no strategy, calls fetch zero times, issues no write and
\* changes no store, and nothing is ever done for that request afterwards.
C11_Bypass ==
    /\ [][\A t \in TaskIds :
            (tasks[t].st = "idle" /\ tasks'[t].st # "idle"
             /\ IsBypassRequest(tasks'[t].request))
            => /\ tasks'[t].st = "bypass"
               /\ tasks'[t].strategy = "none"
               /\ tasks'[t].fetches = 0 /\ tasks'[t].puts = 0
               /\ tasks'[t].result = NoResp
               /\ UNCHANGED << cacheOrder, cacheData, pendingPuts >>
         ]_vars
    /\ [][\A t \in TaskIds :
            (tasks[t].st # "idle" /\ IsBypassRequest(tasks[t].request))
            => tasks'[t] = tasks[t]
         ]_vars

\* C11 witness: a request to the API host and a chrome-extension request have
\* both been passed through
C11_Witness ==
    /\ \E t \in TaskIds : tasks[t].st = "bypass" /\ tasks[t].request.url = URL_API
    /\ \E t \in TaskIds : tasks[t].st = "bypass" /\ tasks[t].request.url = URL_EXTENSION

\* the request's host serves web fonts
IsFontRequest(request) ==
    request.url.hostname \in {"fonts.googleapis.com", "fonts.gstatic.com"}

\* the request declares that it accepts an HTML document
IsDocumentRequest(request) == request.accept = AcceptDocument

\* the request's path ends in .js or .css
IsStaticAssetRequest(request) == request.url.ext \in {"js", "css"}

\* C12: every request the listener has handled was given the route of the first
\* rule it satisfies, in the order bypass, bypass, FONT, DOCUMENT, STATIC_ASSET,
\* DEFAULT; a request that is not bypassed runs exactly one of the strategies.
C12_FirstMatchWins ==
    \A t \in TaskIds :
       tasks[t].st # "idle" =>
          LET r == tasks[t].request
              route == << tasks[t].strategy, tasks[t].cacheName >>
          IN  /\ IsBypassRequest(r) => (tasks[t].st = "bypass" /\ route = << "none", "" >>)
              /\ ~IsBypassRequest(r) =>
                   /\ tasks[t].st # "bypass"
                   /\ tasks[t].strategy \in
                        {"cacheFirst", "networkFirst", "staleWhileRevalidate"}
              /\ (~IsBypassRequest(r) /\ IsFontRequest(r))
                   => route = << "cacheFirst", CACHE_NAME >>
              /\ (~IsBypassRequest(r) /\ ~IsFontRequest(r) /\ IsDocumentRequest(r))
                   => route = << "networkFirst", CACHE_NAME >>
              /\ (~IsBypassRequest(r) /\ ~IsFontRequest(r) /\ ~IsDocumentRequest(r)
                  /\ IsStaticAssetRequest(r))
                   => route = << "staleWhileRevalidate", RUNTIME_CACHE >>
              /\ (~IsBypassRequest(r) /\ ~IsFontRequest(r) /\ ~IsDocumentRequest(r)
                  /\ ~IsStaticAssetRequest(r))
                   => route = << "networkFirst", RUNTIME_CACHE >>

\* C12 witness: a font request that accepts text/html runs cacheFirst and a .js
\* request that accepts text/html runs networkFirst
C12_Witness ==
    /\ \E t \in TaskIds :
          /\ tasks[t].request = [url |-> URL_FONT_CSS, accept |-> AcceptDocument]
          /\ tasks[t].strategy = "cacheFirst"
    /\ \E t \in TaskIds :
          /\ tasks[t].request = [url |-> URL_MAIN_JS, accept |-> AcceptDocument]
          /\ tasks[t].strategy = "networkFirst"


\* C13: once the chain of a CACHE_URLS message has ended without a store
\* failure, every URL of the list whose fetch succeeded is in the runtime store,
\* whether or not another URL's fetch failed.
C13_PrimingToleratesFailure ==
    \A m \in MessageIds :
       (primes[m].st \in {"stored", "rejected"} /\ primes[m].error # "store")
       => \A i \in DOMAIN primes[m].urls :
             primes[m].fetched[i] = "ok"
             => cacheData[RUNTIME_CACHE][primes[m].urls[i]]
                  = NetResp(primes[m].urls[i], 200, 0)


\* C14: when a run of the activate handler has ended, even by a failure of
\* caches.keys() or of one caches.delete(name), clients.claim() has been called
\* and every stale store whose own deletion did not fail is gone.
C14_CutoverBestEffort ==
    (/\ phase = "active"
     /\ act \in {"done", "failed"}
     /\ \A n \in StoreNames : delState[n] # "pending")
    => /\ claimed
       /\ \A n \in StoreNames :
             (Exists(cacheOrder, n) /\ n \notin {CACHE_NAME, RUNTIME_CACHE})
             => delState[n] = "failed"


\* C15: when the lookup of cacheFirst, or the lookup of networkFirst after a
\* failed fetch, makes the strategy return a stored response, that response is
\* the entry the request has in the store whose name the strategy was given.
C15_LookupScopedToTargetStore ==
    [][\A t \in TaskIds :
          (/\ tasks[t].st = "run"
           /\ tasks[t].strategy \in {"cacheFirst", "networkFirst"}
           /\ tasks[t].pc = "match"
           /\ tasks'[t].st = "done")
          => /\ cacheData[tasks[t].cacheName][tasks[t].request.url] # NoResp
             /\ tasks'[t].result = cacheData[tasks[t].cacheName][tasks[t].request.url]
      ]_vars


\* C16: a staleWhileRevalidate run whose lookup found no entry does not return
\* while its fetch is pending; in the turn in which the fetch settles it returns
\* the network's response, or an empty 503 response when the fetch failed.
C16_StaleMiss ==
    \A t \in TaskIds :
       (/\ tasks[t].strategy = "staleWhileRevalidate"
        /\ tasks[t].pc = "await"
        /\ tasks[t].cached = NoResp)
       => /\ tasks[t].st \in {"run", "done"}
          /\ tasks[t].fetches = 1
          /\ tasks[t].net = "pending" <=> tasks[t].st = "run"
          /\ tasks[t].st = "done" =>
               /\ tasks[t].net = "settled"
               /\ tasks[t].netValue # NoResp => tasks[t].result = tasks[t].netValue
               /\ tasks[t].netValue = NoResp =>
                    /\ tasks[t].result.status = 503
                    /\ tasks[t].result.body = ""
                    /\ tasks[t].result # NoResp

\* C16 witness: one run missed and returned the network's 200 response, another
\* missed, lost the network and returned 503
C16_Witness ==
    /\ \E t \in TaskIds :
          /\ tasks[t].strategy = "staleWhileRevalidate" /\ tasks[t].pc = "await"
          /\ tasks[t].st = "done" /\ tasks[t].cached = NoResp
          /\ tasks[t].result = tasks[t].netValue /\ tasks[t].result.status = 200
    /\ \E t \in TaskIds :
          /\ tasks[t].strategy = "staleWhileRevalidate" /\ tasks[t].pc = "await"
          /\ tasks[t].st = "done" /\ tasks[t].cached = NoResp
          /\ tasks[t].netValue = NoResp /\ tasks[t].result.status = 503


\* C17: when cacheFirst returns after a miss it has called fetch exactly once;
\* after a 2xx fetch it returns the network's response and has issued the
\* write of that response to its target store under the request's key; after a
\* network error it returns a 503 response and has issued no write.
C17_CacheFirstMiss ==
    [][\A t \in TaskIds :
          (/\ tasks[t].strategy = "cacheFirst"
           /\ tasks[t].st = "run" /\ tasks'[t].st = "done"
           /\ tasks'[t].cached = NoResp)
          => /\ tasks'[t].fetches = 1
             /\ Is2xx(tasks'[t].response) =>
                  /\ tasks'[t].result = tasks'[t].response
                  /\ \E p \in pendingPuts' :
                        /\ p.task = t
                        /\ p.cacheName = tasks[t].cacheName
                        /\ p.url = tasks[t].request.url
                        /\ p.response = tasks'[t].response
             /\ tasks'[t].response = NoResp =>
                  /\ tasks'[t].result.status = 503
                  /\ tasks'[t].puts = 0
                  /\ UNCHANGED << cacheOrder, cacheData, pendingPuts >>
      ]_vars


\* C18: the lifecycle state changes only from installing to installed, when
\* every cache.add of the precache has settled; from installed to activating,
\* when the activate event is dispatched; and from activating to active, when
\* the activate handler has completed its cutover. An active worker stays active.
C18_LifecycleOrder ==
    [][phase' # phase =>
          \/ /\ phase = "installing" /\ phase' = "installed"
             /\ \A i \in ManifestIdx : addState'[i] \in {"stored", "failed"}
          \/ /\ phase = "installed" /\ phase' = "activating"
             /\ activations' = activations + 1
          \/ /\ phase = "activating" /\ phase' = "active"
             /\ act' = "done" /\ claimed'
      ]_vars


\* no other strategy run has issued a write for the key of run t, and no
\* CACHE_URLS message is writing or has written that key
NoCompetingWrite(t) ==
    /\ \A u \in TaskIds \ {t} :
          (/\ tasks[u].cacheName = tasks[t].cacheName
           /\ tasks[u].request.url = tasks[t].request.url)
          => tasks[u].puts = 0
    /\ \A m \in MessageIds :
          (/\ tasks[t].cacheName = RUNTIME_CACHE
           /\ \E i \in DOMAIN primes[m].urls : primes[m].urls[i] = tasks[t].request.url)
          => primes[m].st \in {"idle", "rejected"}

\* the write that the staleWhileRevalidate run t issued for its 2xx network
\* response has settled in one of the given ways, and no other run wrote the key
Revalidated(t, putStates) ==
    /\ tasks[t].strategy = "staleWhileRevalidate"
    /\ tasks[t].net = "settled"
    /\ Is2xx(tasks[t].netValue)
    /\ tasks[t].putState \in putStates
    /\ NoCompetingWrite(t)

\* C19: once the write of a staleWhileRevalidate run's 2xx network response has
\* settled, with no competing write, the target store holds that response under
\* the request's key (stated as the claim has it; the source neither awaits nor
\* checks the write, so a write that fails leaves the older entry)
C19_RevalidationRefreshesStore ==
    \A t \in TaskIds :
       Revalidated(t, {"stored", "failed"})
       => cacheData[tasks[t].cacheName][tasks[t].request.url] = tasks[t].netValue

\* the strategy runs that handle the request key `url` against the store `name`
Racers(name, url) ==
    { t \in TaskIds : /\ tasks[t].st \in {"run", "done", "rejected"}
                      /\ tasks[t].cacheName = name
                      /\ tasks[t].request.url = url }

\* the run has ended and so has its fetch; no write for the key is in flight
Quiescent(name, url) ==
    /\ \A t \in Racers(name, url) :
          tasks[t].st \in {"done", "rejected"} /\ tasks[t].net # "pending"
    /\ \A p \in pendingPuts : ~(p.cacheName = name /\ p.url = url)

\* C20: when two or more strategy runs have handled the same request key
\* against the same store and all their writes have settled, every run has
\* returned a response, and if any of them obtained a 2xx response the store
\* holds, under the key, one of the 2xx responses they obtained.
C20_RacingWriters ==
    \A name \in {CACHE_NAME, RUNTIME_CACHE}, url \in FetchUrls :
       (Cardinality(Racers(name, url)) >= 2 /\ Quiescent(name, url))
       => /\ \A t \in Racers(name, url) : tasks[t].st = "done" /\ tasks[t].result # NoResp
          /\ LET written == { tasks[t].response :
                                t \in { x \in Racers(name, url) : tasks[x].puts > 0 } }
             IN  written # {} =>
                    /\ cacheData[name][url] \in written
                    /\ Is2xx(cacheData[name][url])

====
